---- MODULE Spec2Model ----
(***************************************************************************)
(* A model of sync.py: sync_s3_bucket mirrors the objects of an S3 bucket  *)
(* (under an optional prefix) into a local directory with a                *)
(* ThreadPoolExecutor of max_workers threads.                              *)
(*                                                                         *)
(* Strings are sequences of one-character strings, so that slicing,        *)
(* stripping, the regular expression and the path operations are computed  *)
(* character by character as the Python code computes them.                *)
(***************************************************************************)
EXTENDS Integers, Sequences, FiniteSets, TLC

(***************************************************************************)
(* Bounds of the model.                                                    *)
(***************************************************************************)
\* longest locator tail (the part after "s3://") that Init enumerates
MaxTail == 3
\* largest number of objects the bucket holds
MaxObjects == 3
\* largest max_workers that Init enumerates
MaxWorkers == 3
\* most keys one page of the listing carries
PageSize == 2
\* most pages one listing takes
MaxPages == 3
\* longest key the path mapper is applied to as a pure function
MaxKeyLen == 3

(***************************************************************************)
(* String helpers (Python str operations).                                 *)
(***************************************************************************)
Min(a, b) == IF a < b THEN a ELSE b

\* F(x) and F(x, y), with the arguments evaluated once, before F is applied
Apply(F(_), x) == CHOOSE r \in {F(v) : v \in {x}} : TRUE
Apply2(F(_, _), x, y) == CHOOSE r \in {F(v, w) : v \in {x}, w \in {y}} : TRUE

\* s[n:]
Drop(s, n) == SubSeq(s, Min(n, Len(s)) + 1, Len(s))

\* s[:n]
Take(s, n) == SubSeq(s, 1, Min(n, Len(s)))

\* s.startswith(pre)
StartsWith(s, pre) == Len(s) >= Len(pre) /\ SubSeq(s, 1, Len(pre)) = pre

RECURSIVE LStrip(_)
\* s.lstrip('/')
LStrip(s) == IF s # <<>> /\ Head(s) = "/" THEN Apply(LStrip, Tail(s)) ELSE s

RECURSIVE RStrip(_)
\* s.rstrip('/')
RStrip(s) ==
  IF s # <<>> /\ s[Len(s)] = "/" THEN Apply(RStrip, SubSeq(s, 1, Len(s) - 1))
  ELSE s

\* s.strip('/')
Strip(s) == RStrip(LStrip(s))

RECURSIVE SeqsUpTo(_, _)
\* every string over the alphabet A of length at most n
SeqsUpTo(A, n) ==
  IF n = 0 THEN {<<>>}
  ELSE LET shorter == SeqsUpTo(A, n - 1)
       IN shorter \cup {Append(s, c) : s \in shorter, c \in A}

(***************************************************************************)
(* parse_s3_url (lines 11-24).                                             *)
(***************************************************************************)
S3Scheme == <<"s", "3", ":", "/", "/">>

RECURSIVE NonSlashRun(_)
\* length of the longest leading run of characters other than "/": the greedy
\* match of [^/]+
NonSlashRun(s) ==
  IF s = <<>> \/ Head(s) = "/" THEN 0 ELSE 1 + Apply(NonSlashRun, Tail(s))

RECURSIVE DotRun(_)
\* length of the longest leading run of characters other than a line break: the
\* greedy match of .+ (the pattern is compiled without re.DOTALL)
DotRun(s) ==
  IF s = <<>> \/ Head(s) = "\n" THEN 0 ELSE 1 + Apply(DotRun, Tail(s))

\* group 2 of the pattern matched against what follows the bucket: the optional
\* "/" is taken when it is there, then (.+)? takes the characters up to the
\* first line break
group2_of(after) ==
  LET tail == IF after # <<>> /\ Head(after) = "/" THEN Tail(after) ELSE after
  IN Take(tail, DotRun(tail))

\* the regular expression without its '+': a bucket segment may be empty
re_match_empty_bucket(s3_url) ==
  IF ~StartsWith(s3_url, S3Scheme)
  THEN [matched |-> FALSE, group1 |-> <<>>, group2 |-> <<>>]
  ELSE LET rest  == Drop(s3_url, Len(S3Scheme))
           n     == NonSlashRun(rest)
           after == Drop(rest, n)
       IN [matched |-> TRUE,
           group1  |-> Take(rest, n),
           group2  |-> group2_of(after)]

\* re.match(r's3://([^/]+)/?(.+)?', s3_url): anchored at the start only.
\* group 2 is <<>> where Python gives None.
re_match(s3_url) ==
  IF ~StartsWith(s3_url, S3Scheme)
  THEN [matched |-> FALSE, group1 |-> <<>>, group2 |-> <<>>]
  ELSE LET rest  == Drop(s3_url, Len(S3Scheme))
           n     == NonSlashRun(rest)
           after == Drop(rest, n)
       IN IF n = 0
          THEN [matched |-> FALSE, group1 |-> <<>>, group2 |-> <<>>]
          ELSE [matched |-> TRUE,
                group1  |-> Take(rest, n),
                group2  |-> group2_of(after)]

\* the result of parse_s3_url: ok = FALSE is the ValueError of line 15
parse_s3_url(s3_url) ==
  LET match == re_match(s3_url)
      stripped == Strip(match.group2)
  IN IF ~match.matched
     THEN [ok |-> FALSE, bucket |-> <<>>, prefix |-> <<>>]
     ELSE [ok     |-> TRUE,
           bucket |-> match.group1,
           prefix |-> IF stripped # <<>> THEN Append(stripped, "/") ELSE <<>>]

(***************************************************************************)
(* Paths: pathlib.PurePosixPath and os.path on POSIX.                      *)
(***************************************************************************)
RECURSIVE Split(_)
\* s.split('/')
Split(s) ==
  LET n == NonSlashRun(s)
  IN IF n = Len(s) THEN <<s>>
     ELSE <<Take(s, n)>> \o Apply(Split, Drop(s, n + 1))

\* the root pathlib parses off a string: "//" for exactly two leading slashes,
\* "/" for one or for three and more, none otherwise
PathRoot(s) ==
  LET lead == Len(s) - Len(LStrip(s))
  IN IF lead = 0 THEN <<>> ELSE IF lead = 2 THEN <<"/", "/">> ELSE <<"/">>

\* PurePosixPath(s): the root and the components, empty and "." components
\* dropped, ".." kept
Path(s) ==
  [root  |-> PathRoot(s),
   parts |-> SelectSeq(Split(s), LAMBDA c : c # <<>> /\ c # <<".">>)]

\* base / other (PurePosixPath.__truediv__): an absolute other replaces base
PathJoin(base, other) ==
  LET o == Path(other)
  IN IF o.root # <<>> THEN o
     ELSE [root |-> base.root, parts |-> base.parts \o o.parts]

RECURSIVE JoinParts(_)
\* "/".join(parts)
JoinParts(parts) ==
  IF parts = <<>> THEN <<>>
  ELSE IF Len(parts) = 1 THEN parts[1]
  ELSE parts[1] \o <<"/">> \o Apply(JoinParts, Tail(parts))

\* str(path)
PathStr(p) ==
  IF p.root = <<>> /\ p.parts = <<>> THEN <<".">>
  ELSE p.root \o JoinParts(p.parts)

RECURSIVE LastSlash(_)
\* s.rfind('/') + 1
LastSlash(s) ==
  IF s = <<>> THEN 0
  ELSE IF s[Len(s)] = "/" THEN Len(s)
  ELSE Apply(LastSlash, SubSeq(s, 1, Len(s) - 1))

\* os.path.dirname(s)
dirname(s) ==
  LET head == Take(s, LastSlash(s))
  IN IF head # <<>> /\ LStrip(head) # <<>> THEN RStrip(head) ELSE head

RECURSIVE Walk(_, _)
\* the components the kernel reaches walking parts from the root, ".." going
\* up (and staying at the root); acc is the directory reached so far
Walk(acc, parts) ==
  IF parts = <<>> THEN acc
  ELSE IF Head(parts) = <<".", ".">>
       THEN Apply2(Walk,
                   IF acc = <<>> THEN acc ELSE SubSeq(acc, 1, Len(acc) - 1),
                   Tail(parts))
       ELSE Apply2(Walk, Append(acc, Head(parts)), Tail(parts))

\* the file or directory an absolute path string names: its resolved components
Location(s) == Walk(<<>>, Path(s).parts)

\* loc lies inside (or is) the directory dir
Inside(loc, dir) == Len(loc) >= Len(dir) /\ SubSeq(loc, 1, Len(dir)) = dir


(***************************************************************************)
(* The inputs and the environment of one run.                              *)
(***************************************************************************)
\* local_dir, the second argument of sync_s3_bucket
LocalDir == <<"/", "r">>

\* the locators Init enumerates: "s3://" followed by every tail over "p" and
\* "/" of length at most MaxTail, and locators whose scheme is broken
Locators ==
  {S3Scheme \o t : t \in SeqsUpTo({"p", "/"}, MaxTail)}
    \cup {<<"s", "3", ":", "/", "p">>, <<"p">>, <<"/", "s", "3", ":", "/", "/", "p">>}

\* the one bucket that exists at the remote end
RemoteBucket == <<"p">>

\* the keys a bucket may hold, in the order S3 lists them (UTF-8 binary order)
AllKeys ==
  << <<".", ".", "/", "a">>,
     <<"p", "/", "/", "a">>,
     <<"p", "/", "a">>,
     <<"p", "/", "a", "/", "a">> >>

RECURSIVE Pick(_, _, _)
\* the subsequence of keys at the indices of S, from index i on
Pick(keys, S, i) ==
  IF i > Len(keys) THEN <<>>
  ELSE (IF i \in S THEN <<keys[i]>> ELSE <<>>) \o Pick(keys, S, i + 1)

\* the bucket contents Init enumerates: at most MaxObjects of AllKeys
Buckets ==
  {Pick(AllKeys, S, 1) :
     S \in {T \in SUBSET (1..Len(AllKeys)) : Cardinality(T) <= MaxObjects}}

(***************************************************************************)
(* The state.                                                              *)
(***************************************************************************)
VARIABLES
  s3_url,        \* argument: the locator
  max_workers,   \* argument: the size of the thread pool
  bucket_keys,   \* the remote bucket: its keys in listing order
  pc,            \* where the main thread of sync_s3_bucket is
  bucket_name,   \* line 37
  prefix,        \* line 37
  s3_client,     \* TRUE once session.client has built the client (line 52)
  max_pool_connections,  \* line 40: the capacity of the client's pool
  dirs,          \* local filesystem: the directories that exist
  files,         \* local filesystem: the files written
  list_calls,    \* list_objects_v2 calls made
  list_error,    \* TRUE once a list_objects_v2 call has raised
  is_truncated,  \* paginator: FALSE once a page reported no further page
  all_objects,   \* line 71
  futures,       \* line 85: one record per submitted task
  pbar_n         \* tqdm: the completed-count

vars ==
  <<s3_url, max_workers, bucket_keys, pc, bucket_name, prefix, s3_client, dirs,
    files, list_calls, list_error, is_truncated, all_objects, futures,
    pbar_n, max_pool_connections>>

\* the positions of the main thread that end the run
Final == {"InvalidLocator", "ListingFailed", "EmptyDone", "Done", "Crashed"}

\* the phase of the run a position belongs to
Phase(p) ==
  CASE p = "Resolving" -> "Resolving"
    [] p \in {"Setup", "Listing"} -> "Listing"
    [] p \in {"Submitting", "Waiting", "Exiting", "Raising"} -> "Transferring"
    [] OTHER -> p

\* the entry of sync_s3_bucket.  max_workers is at least 1: ThreadPoolExecutor
\* refuses any other value.
Init ==
  /\ s3_url \in Locators
  /\ max_workers \in 1..MaxWorkers
  /\ bucket_keys \in Buckets
  /\ pc = "Resolving"
  /\ bucket_name = <<>>
  /\ prefix = <<>>
  /\ s3_client = FALSE
  /\ max_pool_connections = 0
  /\ dirs = {<<>>}
  /\ files = {}
  /\ list_calls = 0
  /\ list_error = FALSE
  /\ is_truncated = TRUE
  /\ all_objects = <<>>
  /\ futures = <<>>
  /\ pbar_n = 0

(***************************************************************************)
(* The main thread up to the listing (lines 35-80).                        *)
(***************************************************************************)
\* line 37: parse_s3_url returns or raises ValueError out of sync_s3_bucket
Resolve ==
  /\ pc = "Resolving"
  /\ LET r == parse_s3_url(s3_url)
     IN /\ pc' = IF r.ok THEN "Setup" ELSE "InvalidLocator"
        /\ bucket_name' = r.bucket
        /\ prefix' = r.prefix
  /\ UNCHANGED <<s3_url, max_workers, bucket_keys, s3_client, dirs, files,
                 list_calls, list_error, is_truncated, all_objects,
                 futures, pbar_n,
                 max_pool_connections>>

\* Path.mkdir(parents=True, exist_ok=True): the directory and its ancestors
mkdir_parents(d, path) ==
  d \cup {Walk(<<>>, SubSeq(Path(path).parts, 1, k)) :
            k \in 0..Len(Path(path).parts)}

\* line 40: "Add some buffer for list operations"
PoolHeadroom == 10

\* a client without timeouts, on a connection that stalls
call_hangs == FALSE

\* lines 41-46: connect_timeout=60, read_timeout=60 and max_attempts=3, so a
\* call of the client returns or raises within a bounded time
call_returns == TRUE

\* a client left with the default pool of botocore
pool_size_default(workers) == 10

\* line 40: max_pool_connections = max_workers + 10
pool_size(workers) == workers + PoolHeadroom

\* lines 40-68: the client is created, then the local root is ensured (both
\* taken to succeed: the credentials resolve and local_dir can be created)
Setup ==
  /\ pc = "Setup"
  /\ max_pool_connections' = pool_size(max_workers)
  /\ s3_client' = TRUE
  /\ dirs' = mkdir_parents(dirs, LocalDir)
  /\ pc' = "Listing"
  /\ UNCHANGED <<s3_url, max_workers, bucket_keys, bucket_name, prefix, files,
                 list_calls, list_error, is_truncated, all_objects,
                 futures, pbar_n>>

\* list_objects_v2(Bucket, Prefix): the keys of the bucket that begin with the
\* prefix, in listing order
Listing == SelectSeq(bucket_keys, LAMBDA k : StartsWith(k, prefix))

\* a loop that stops after its first page
AfterPage_first_page_only(truncated, objects) ==
  IF objects = <<>> THEN (IF truncated THEN "Listing" ELSE "EmptyDone")
  ELSE "Submitting"

\* a function without the test of line 78
AfterPage_no_empty_check(truncated, objects) ==
  IF truncated THEN "Listing" ELSE "Submitting"

\* lines 74-82: the loop goes on while the paginator has a further page; after
\* the last page an empty list returns (line 80), any other goes on to the pool
AfterPage(truncated, objects) ==
  IF truncated THEN "Listing"
  ELSE IF objects = <<>> THEN "EmptyDone" ELSE "Submitting"

\* a loop that keeps the contents of the last page only
extend_replace(objects, contents) == contents

\* line 76: all_objects.extend(page['Contents'])
extend(objects, contents) == objects \o contents

\* lines 74-76: the paginator fetches one page: the next n keys of the listing,
\* and truncated, which says whether a further page follows.  A page of no
\* keys has no 'Contents'.  The listing takes at most MaxPages pages.
ListPage ==
  /\ pc = "Listing"
  /\ call_returns
  /\ bucket_name = RemoteBucket
  /\ LET rest == Drop(Listing, Len(all_objects))
     IN \E n \in 0..Min(PageSize, Len(rest)), truncated \in BOOLEAN :
          /\ n < Len(rest) => truncated
          /\ truncated => Len(rest) - n <= (MaxPages - list_calls - 1) * PageSize
          /\ truncated => list_calls + 1 < MaxPages
          /\ list_calls' = list_calls + 1
          /\ is_truncated' = truncated
          /\ all_objects' = IF n > 0 THEN extend(all_objects, Take(rest, n))
                            ELSE all_objects
          /\ pc' = AfterPage(truncated, all_objects')
  /\ UNCHANGED <<s3_url, max_workers, bucket_keys, bucket_name, prefix,
                 s3_client, dirs, files, list_error, futures, pbar_n,
                 max_pool_connections>>

\* a loop that catches the error and goes on with the pages it has
on_list_error_keep_pages(objects) ==
  IF objects = <<>> THEN "ListingFailed" ELSE "Submitting"

\* line 74: nothing catches the exception of the paginator, so it leaves
\* sync_s3_bucket whatever was listed before
on_list_error(objects) == "ListingFailed"

\* line 74: a list_objects_v2 call raises (no such bucket, or an error of the
\* network or of the credentials)
ListFail ==
  /\ pc = "Listing"
  /\ call_returns
  /\ list_calls' = list_calls + 1
  /\ list_error' = TRUE
  /\ pc' = on_list_error(all_objects)
  /\ UNCHANGED <<s3_url, max_workers, bucket_keys, bucket_name, prefix,
                 s3_client, dirs, files, is_truncated, all_objects, futures,
                 pbar_n,
                 max_pool_connections>>

(***************************************************************************)
(* The path mapper (lines 87-95).                                          *)
(***************************************************************************)
\* lines 90-93: a non-empty prefix cuts len(prefix) characters off the key
local_key_of(pre, s3_key) ==
  IF pre # <<>> THEN Drop(s3_key, Len(pre)) ELSE s3_key

\* line 95: str(local_dir / local_key)
local_path_of(local_dir, local_key) ==
  PathStr(PathJoin(Path(local_dir), local_key))

(***************************************************************************)
(* The thread pool (lines 84-103).  A future is pending (queued), then     *)
(* run by a worker thread through the steps of download_file: makedirs     *)
(* looks for the deepest ancestor that exists, then makes one directory    *)
(* per mkdir call; then the download; then it is finished with a result.   *)
(***************************************************************************)
Indices == 1..Len(futures)

\* the tasks a worker thread is running
InFlight ==
  {i \in Indices : futures[i].state \in {"makedirs", "mkdir", "download"}}

\* the tasks waiting in the executor's work queue
Queued == {i \in Indices : futures[i].state = "pending"}

\* a future that counts as done as soon as a worker has taken it
future_done_started(f) == f.state # "pending"

\* Future.done(): the result (or the exception) of the call is set
future_done(f) == f.state = "finished"

\* a pool that starts a thread for every work item
worker_free_unbounded == TRUE

\* ThreadPoolExecutor(max_workers=max_workers), line 84: the pool never has
\* more than max_workers threads, each running one work item at a time
worker_free == Cardinality(InFlight) < max_workers

\* download_file without its try/except: the exception is set on the future
download_file_uncaught(ok) == IF ok THEN "True" ELSE "raised"

\* lines 27-33: what download_file returns; any exception of makedirs or of
\* the download is caught and False returned
download_file(ok) == IF ok THEN "True" ELSE "False"

\* lines 86-98: one iteration of the submit loop maps the next object and
\* submits its task; after the last the main thread goes on to the wait loop
Submit ==
  /\ pc = "Submitting"
  /\ Len(futures) < Len(all_objects)
  /\ \E s3_key \in {all_objects[Len(futures) + 1]} :
     \E local_key \in {local_key_of(prefix, s3_key)} :
     \E local_path \in {local_path_of(LocalDir, local_key)} :
       futures' = Append(futures,
                    [s3_key     |-> s3_key,
                     local_key  |-> local_key,
                     local_path |-> local_path,
                     state      |-> "pending",
                     depth      |-> 0,
                     result     |-> "none",
                     error      |-> "none",
                     runs       |-> 0,
                     downloads  |-> 0])
  /\ pc' = IF Len(futures') = Len(all_objects) THEN "Waiting" ELSE "Submitting"
  /\ UNCHANGED <<s3_url, max_workers, bucket_keys, bucket_name, prefix,
                 s3_client, dirs, files, list_calls, list_error,
                 is_truncated, all_objects, pbar_n,
                 max_pool_connections>>

\* a worker thread takes the oldest work item off the queue
WorkerStart(i) ==
  /\ i \in Queued
  /\ \A j \in Queued : i <= j
  /\ worker_free
  /\ futures' = [futures EXCEPT ![i].state = "makedirs", ![i].runs = @ + 1]
  /\ UNCHANGED <<s3_url, max_workers, bucket_keys, pc, bucket_name, prefix,
                 s3_client, dirs, files, list_calls, list_error,
                 is_truncated, all_objects, pbar_n,
                 max_pool_connections>>

\* the errors os.makedirs raises: the directory exists (FileExistsError on a
\* directory), a file is in the way, any other error of the filesystem
MakedirsErrors == {"makedirs_exists", "makedirs_file", "makedirs_os"}

\* the components of the directory of a task: os.path.dirname(local_path)
DirParts(f) == Apply(Path, Apply(dirname, f.local_path)).parts

\* the directory that the first j components of parts name
DirAt(parts, j) == Walk(<<>>, Take(parts, j))

\* os.path.exists
exists(loc) == loc \in dirs \cup files

\* a call with exist_ok=False
exist_ok_false == FALSE

\* line 28: exist_ok=True
exist_ok == TRUE

\* a download_file that goes on to line 29 after an exception of line 28
on_makedirs_error_ignored == "download"

\* lines 28-33: an exception of os.makedirs skips line 29 and ends the call
on_makedirs_error == "finished"

\* line 28, os.makedirs, first part: it looks upwards from the directory for
\* the deepest proper ancestor that exists (os.path.exists(head)); the mkdir
\* calls start below it.  An empty name raises FileNotFoundError.
MakedirsProbe(i) ==
  /\ i \in Indices
  /\ futures[i].state = "makedirs"
  /\ \E name \in {dirname(futures[i].local_path)} :
     \E parts \in {Path(name).parts} :
     \E found \in {{j \in 0..Len(parts) - 1 : exists(DirAt(parts, j))}
                     \cup {0}} :
     \E k \in {j \in found : \A m \in found : m <= j} :
       IF name = <<>>
       THEN futures' = [futures EXCEPT ![i].state = on_makedirs_error,
                                       ![i].error = "makedirs_os",
                                       ![i].result = download_file(FALSE)]
       ELSE futures' = [futures EXCEPT ![i].state = "mkdir", ![i].depth = k]
  /\ UNCHANGED <<s3_url, max_workers, bucket_keys, pc, bucket_name, prefix,
                 s3_client, dirs, files, list_calls, list_error,
                 is_truncated, all_objects, pbar_n,
                 max_pool_connections>>

\* what one mkdir call of os.makedirs does with the component after depth:
\* "made" (the directory is created), "there" (it exists and that is
\* accepted), or the error raised.  The mkdir of an ancestor that exists is
\* always accepted (except FileExistsError: pass); the mkdir of the directory
\* itself is accepted when exist_ok is set and it is a directory.
mkdir_step(parts, depth, ok) ==
  LET j      == depth + 1
      target == DirAt(parts, j)
      parent == DirAt(parts, j - 1)
      leaf   == j >= Len(parts)
  IN IF ~ok THEN "makedirs_os"
     ELSE IF parent \in files THEN "makedirs_file"
     ELSE IF target \in files THEN (IF leaf THEN "makedirs_file" ELSE "there")
     ELSE IF target \in dirs
          THEN (IF leaf /\ ~exist_ok THEN "makedirs_exists" ELSE "there")
     ELSE "made"

\* line 28, os.makedirs, one mkdir call (ok = FALSE: an error of the
\* filesystem); after the last one the task goes on to line 29
Mkdir(i) ==
  /\ i \in Indices
  /\ futures[i].state = "mkdir"
  /\ \E ok \in BOOLEAN :
       LET parts   == DirParts(futures[i])
           j       == futures[i].depth + 1
           outcome == mkdir_step(parts, futures[i].depth, ok)
       IN IF outcome \in MakedirsErrors
          THEN /\ dirs' = dirs
               /\ futures' = [futures EXCEPT ![i].state = on_makedirs_error,
                                             ![i].error = outcome,
                                             ![i].result =
                                               IF on_makedirs_error = "finished"
                                               THEN download_file(FALSE)
                                               ELSE "none"]
          ELSE /\ dirs' = IF outcome = "made"
                          THEN dirs \cup {DirAt(parts, j)} ELSE dirs
               /\ futures' = [futures EXCEPT ![i].depth = j,
                                             ![i].state =
                                               IF j >= Len(parts)
                                               THEN "download" ELSE "mkdir"]
  /\ UNCHANGED <<s3_url, max_workers, bucket_keys, pc, bucket_name, prefix,
                 s3_client, files, list_calls, list_error,
                 is_truncated, all_objects, pbar_n,
                 max_pool_connections>>

\* a download_file that calls the client again after a failure
after_download_retry(success, attempts) ==
  IF ~success /\ attempts < 2 THEN "download" ELSE "finished"

\* lines 29-33: one call of the client, then download_file returns
after_download(success, attempts) == "finished"

\* line 29: s3_client.download_file(bucket_name, s3_key, local_path).  It
\* fails when local_path is a directory or on an error of the network or the
\* filesystem (ok = FALSE); otherwise the file is written
Download(i) ==
  /\ i \in Indices
  /\ futures[i].state = "download"
  /\ call_returns
  /\ \E ok \in BOOLEAN :
       LET dest    == Location(futures[i].local_path)
           success == ok /\ dest \notin dirs
       IN /\ files' = IF success THEN files \cup {dest} ELSE files
          /\ futures' = [futures EXCEPT
                          ![i].state =
                            after_download(success, futures[i].downloads + 1),
                          ![i].error = IF success THEN @ ELSE "download",
                          ![i].result =
                            IF after_download(success, futures[i].downloads + 1)
                               = "finished"
                            THEN download_file(success) ELSE "none",
                          ![i].downloads = @ + 1]
  /\ UNCHANGED <<s3_url, max_workers, bucket_keys, pc, bucket_name, prefix,
                 s3_client, dirs, list_calls, list_error,
                 is_truncated, all_objects, pbar_n,
                 max_pool_connections>>

\* a loop that waits for the first future every time
awaited_first(n) == 1

\* line 101: for future in futures; the loop waits for the future after
\* those it has counted
awaited(n) == n + 1

\* a progress bar that counts the future before and after waiting for it
pbar_update_twice(n) == n + 2

\* line 103: pbar.update(1)
pbar_update(n) == n + 1

\* lines 101-103: future.result() blocks until the next future in submission
\* order is done, re-raises the exception of its call if it set one, and
\* otherwise the bar is advanced
FutureResult ==
  /\ pc = "Waiting"
  /\ pbar_n < Len(futures)
  /\ future_done(futures[awaited(pbar_n)])
  /\ IF futures[awaited(pbar_n)].result = "raised"
     THEN /\ pbar_n' = pbar_n
          /\ pc' = "Raising"
     ELSE /\ pbar_n' = pbar_update(pbar_n)
          /\ pc' = IF pbar_n' >= Len(futures) THEN "Exiting" ELSE "Waiting"
  /\ UNCHANGED <<s3_url, max_workers, bucket_keys, bucket_name, prefix,
                 s3_client, dirs, files, list_calls, list_error,
                 is_truncated, all_objects, futures,
                 max_pool_connections>>

\* line 84: leaving the with block calls executor.shutdown(wait=True), which
\* joins the worker threads; then sync_s3_bucket returns, or the exception
\* that left the block goes on
ExecutorExit ==
  /\ pc \in {"Exiting", "Raising"}
  /\ \A i \in Indices : future_done(futures[i])
  /\ pc' = IF pc = "Exiting" THEN "Done" ELSE "Crashed"
  /\ UNCHANGED <<s3_url, max_workers, bucket_keys, bucket_name, prefix,
                 s3_client, dirs, files, list_calls, list_error,
                 is_truncated, all_objects, futures, pbar_n,
                 max_pool_connections>>

Next ==
  \/ Resolve
  \/ Setup
  \/ ListPage
  \/ ListFail
  \/ Submit
  \/ FutureResult
  \/ ExecutorExit
  \/ \E i \in Indices : WorkerStart(i)
  \/ \E i \in Indices : Download(i)
  \/ \E i \in Indices : Mkdir(i)
  \/ \E i \in Indices : MakedirsProbe(i)

Spec == Init /\ [][Next]_vars


(***************************************************************************)
(* The path mapper as a pure function: the submit loop applied to one      *)
(* arbitrary key, whether or not the key begins with the prefix.           *)
(***************************************************************************)
KeyChars == {"p", "a", "/", "."}

\* every non-empty key of at most MaxKeyLen characters
MapperKeys == SeqsUpTo(KeyChars, MaxKeyLen) \ {<<>>}

\* the prefixes of the locators "s3://p" and "s3://p/p"
MapperLocators == {S3Scheme \o <<"p">>, S3Scheme \o <<"p", "/", "p">>}

\* the state at line 84 with all_objects holding one key
InitMapper ==
  /\ s3_url \in MapperLocators
  /\ max_workers = 1
  /\ \E k \in MapperKeys : bucket_keys = <<k>> /\ all_objects = <<k>>
  /\ pc = "Submitting"
  /\ bucket_name = parse_s3_url(s3_url).bucket
  /\ prefix = parse_s3_url(s3_url).prefix
  /\ s3_client = TRUE
  /\ max_pool_connections = pool_size(max_workers)
  /\ dirs = mkdir_parents({<<>>}, LocalDir)
  /\ files = {}
  /\ list_calls = 1
  /\ list_error = FALSE
  /\ is_truncated = FALSE
  /\ futures = <<>>
  /\ pbar_n = 0

NextMapper == Submit

SpecMapper == InitMapper /\ [][NextMapper]_vars

(***************************************************************************)
(* Properties.                                                             *)
(***************************************************************************)
\* the tasks with a recorded outcome: success (True) or failure (False)
Outcomes == {i \in Indices : futures[i].result \in {"True", "False"}}

Failures == {i \in Indices : futures[i].result = "False"}

Successes == {i \in Indices : futures[i].result = "True"}

\* the tasks in which makedirs or the download raised
Raised == {i \in Indices : futures[i].error # "none"}

\* sync_s3_bucket has left the with block of line 84
Returned == pc \in {"Done", "Crashed"}

\* C1: join/barrier. When sync_s3_bucket has returned from the transfer stage,
\* every listed object was submitted, every submitted task has a recorded
\* outcome (as many outcomes as tasks), and no task is queued or in flight,
\* whatever the interleaving of the workers and whichever tasks failed.
C1_JoinBarrier ==
  Returned =>
    /\ Len(futures) = Len(all_objects)
    /\ Cardinality(Outcomes) = Len(futures)
    /\ \A i \in Indices : future_done(futures[i])
    /\ InFlight = {}
    /\ Queued = {}

\* a run of three tasks has returned, one of them failed and one succeeded
C1_Witness ==
  /\ pc = "Done"
  /\ Len(futures) >= 3
  /\ Failures # {}
  /\ Successes # {}

\* C2: failure isolation. An exception of makedirs or of the download in a
\* task is recorded as the failed outcome of that task and of no other; it
\* never makes the run abort, and at the return every task has its outcome:
\* failed exactly when it raised. So N tasks of which exactly one raised give
\* N outcomes, one failure and N - 1 successes.
C2_FailureIsolation ==
  /\ pc \notin {"Raising", "Crashed"}
  /\ \A i \in Indices :
       future_done(futures[i]) =>
         futures[i].result = (IF futures[i].error = "none" THEN "True" ELSE "False")
  /\ pc = "Done" =>
       /\ Cardinality(Outcomes) = Len(futures)
       /\ Failures = Raised
       /\ Cardinality(Raised) = 1 =>
            /\ Cardinality(Failures) = 1
            /\ Cardinality(Successes) = Len(futures) - 1

\* the first of three tasks failed, the two submitted after it succeeded
C2_Witness ==
  /\ pc = "Done"
  /\ Len(futures) >= 3
  /\ Raised = {1}
  /\ Failures = {1}
  /\ Successes = {2, 3}

\* C3: bounded concurrency. At most max_workers tasks are in flight in every
\* reachable state; the tasks beyond max_workers stay queued.
C3_BoundedConcurrency == Cardinality(InFlight) <= max_workers

\* all workers are busy and a task waits in the queue
C3_Witness ==
  /\ Cardinality(InFlight) = max_workers
  /\ max_workers >= 2
  /\ Queued # {}

\* C4: the completed-count of the progress bar starts at 0, never decreases,
\* never exceeds the number of tasks known from the listing, and is exactly
\* len(futures) when the run returns.
C4_ProgressCount ==
  /\ pbar_n = 0
  /\ [](/\ pbar_n <= Len(all_objects)
        /\ pc = "Done" => pbar_n = Len(futures) /\ pbar_n = Len(all_objects))
  /\ [][pbar_n' >= pbar_n]_vars

\* the run returned with three tasks counted, a failed one among them
C4_Witness ==
  /\ pc = "Done"
  /\ pbar_n = 3
  /\ Failures # {}

\* the steps between phases that the run may take
PhaseSteps ==
  {<<"Resolving", "Listing">>, <<"Resolving", "InvalidLocator">>,
   <<"Listing", "ListingFailed">>, <<"Listing", "EmptyDone">>,
   <<"Listing", "Transferring">>, <<"Transferring", "Done">>}

\* C5: the phases are linear: Resolving, Listing, then Empty-Done or
\* Transferring followed by Done (or a fatal end out of Resolving or Listing);
\* a step never returns to an earlier phase.  No task is submitted or started
\* before the paginator has reported its last page.
C5_LinearPhases ==
  /\ Phase(pc) = "Resolving"
  /\ [][Phase(pc') = Phase(pc) \/ <<Phase(pc), Phase(pc')>> \in PhaseSteps]_vars
  /\ []((futures # <<>> \/ Phase(pc) \in {"Transferring", "Done"}) => ~is_truncated)

\* a listing of several pages was followed by a transfer that has ended
C5_Witness ==
  /\ pc = "Done"
  /\ list_calls >= 2
  /\ Len(futures) >= 2

\* C6: an empty listing ends the run at Empty-Done, a normal return: no task
\* was created, no worker or download started, the local root exists and
\* nothing was created beneath it.
C6_EmptyListing ==
  /\ (all_objects = <<>> /\ ~is_truncated /\ ~list_error) => pc = "EmptyDone"
  /\ pc = "EmptyDone" =>
       /\ all_objects = <<>>
       /\ futures = <<>>
       /\ pbar_n = 0
       /\ files = {}
       /\ Location(LocalDir) \in dirs
       /\ \A d \in dirs : Inside(Location(LocalDir), d)

\* the bucket holds objects, none of them under the prefix
C6_Witness ==
  /\ pc = "EmptyDone"
  /\ bucket_keys # <<>>
  /\ list_calls >= 1

\* C7: a listing call that raises is fatal on whichever page: the run ends in
\* ListingFailed, no task is created or submitted, no download is made, also
\* for the objects of the pages received before.
C7_ListingFailed ==
  list_error =>
    /\ pc = "ListingFailed"
    /\ futures = <<>>
    /\ files = {}
    /\ pbar_n = 0

\* the listing failed on a later page, after a page with objects
C7_Witness ==
  /\ pc = "ListingFailed"
  /\ list_calls >= 2
  /\ all_objects # <<>>

\* a locator of the shape s3://bucket[/path]: the scheme, then at least one
\* character other than "/"
WellFormed(url) ==
  /\ Len(url) > Len(S3Scheme)
  /\ \A k \in 1..Len(S3Scheme) : url[k] = S3Scheme[k]
  /\ url[Len(S3Scheme) + 1] # "/"

\* C8: a malformed locator (any locator without a bucket segment) makes
\* parse_s3_url raise, and only such a locator does; the run then ends before
\* any I/O: no client, no local root directory, no listing call, no download.
C8_InvalidLocator ==
  /\ pc # "Resolving" => (pc = "InvalidLocator" <=> ~WellFormed(s3_url))
  /\ pc = "InvalidLocator" =>
       /\ ~s3_client
       /\ dirs = {<<>>}
       /\ files = {}
       /\ list_calls = 0
       /\ futures = <<>>

\* the locator s3:///p, which has a path and no bucket, was rejected
C8_Witness ==
  /\ pc = "InvalidLocator"
  /\ s3_url = S3Scheme \o <<"/", "p">>

\* C9: path containment. The destination of every task lies inside the local
\* root directory, also for keys with ".." segments and for keys that begin
\* with "/" once the prefix is cut off.
C9_PathContainment ==
  \A i \in Indices :
    /\ PathRoot(futures[i].local_path) = <<"/">>
    /\ Inside(Location(futures[i].local_path), Location(LocalDir))

ResolverLocators ==
  {S3Scheme \o t : t \in SeqsUpTo({"p", "q", "/", "\n"}, MaxTail)}

InitResolve ==
  /\ s3_url \in ResolverLocators
  /\ max_workers = 1
  /\ bucket_keys = <<>>
  /\ pc = "Resolving"
  /\ bucket_name = <<>>
  /\ prefix = <<>>
  /\ s3_client = FALSE
  /\ max_pool_connections = 0
  /\ dirs = {<<>>}
  /\ files = {}
  /\ list_calls = 0
  /\ list_error = FALSE
  /\ is_truncated = TRUE
  /\ all_objects = <<>>
  /\ futures = <<>>
  /\ pbar_n = 0

NextResolve == Resolve

SpecResolve == InitResolve /\ [][NextResolve]_vars

\* C11: resolver result. For every accepted locator s3://bucket[/path] the
\* bucket is the first segment after "://" and the prefix is the remainder
\* with the surrounding "/" trimmed and one "/" appended when it is not empty;
\* a returned prefix is empty, or has no leading "/" and ends with "/".
C11_ResolverResult ==
  pc = "Setup" =>
    LET rest    == Drop(s3_url, Len(S3Scheme))
        bucket  == Take(rest, NonSlashRun(rest))
        trimmed == Strip(Drop(rest, Len(bucket)))
    IN /\ bucket_name = bucket
       /\ prefix = IF trimmed = <<>> THEN <<>> ELSE Append(trimmed, "/")
       /\ prefix = <<>> \/ (Head(prefix) # "/" /\ prefix[Len(prefix)] = "/")


\* C12: exactly-once dispatch.  The k-th task is made from the k-th listed
\* object, and once the submit loop is over there are as many tasks as
\* objects; a task is taken by a worker at most once, and a finished task was
\* taken once and had one call of the client's download, whether it failed,
\* succeeded or found its destination file present (no call only when the
\* directory step failed before it).
C12_ExactlyOnce ==
  /\ Len(futures) <= Len(all_objects)
  /\ pc \in {"Waiting", "Exiting", "Done"} => Len(futures) = Len(all_objects)
  /\ \A i \in Indices :
       /\ futures[i].s3_key = all_objects[i]
       /\ futures[i].runs <= 1
       /\ futures[i].downloads <= futures[i].runs
       /\ futures[i].state # "pending" => futures[i].runs = 1
       /\ future_done(futures[i]) =>
            futures[i].downloads =
              IF futures[i].error \in MakedirsErrors THEN 0 ELSE 1

\* the run returned after three tasks: two of them wrote the same destination
\* file, each with one download, and one failed and was not tried again
C12_Witness ==
  /\ pc = "Done"
  /\ Len(futures) = 3
  /\ \E i, j \in Indices :
       /\ i # j
       /\ futures[i].local_path = futures[j].local_path
       /\ futures[i].result = "True" /\ futures[j].result = "True"
       /\ futures[i].downloads = 1 /\ futures[j].downloads = 1
  /\ \E k \in Indices :
       /\ futures[k].error = "download"
       /\ futures[k].runs = 1
       /\ futures[k].downloads = 1

\* C13: listing completeness.  What is materialized is always the listing up
\* to where the pages fetched so far end; a page that says a further page
\* follows keeps the lister listing, whether or not it carried objects, and a
\* page without objects adds nothing; the lister leaves the listing phase
\* without an error only on a page that says no page follows, and then the
\* materialized list is the whole listing.
C13_ListingComplete ==
  /\ [](/\ all_objects = Take(Listing, Len(all_objects))
        /\ pc \in {"EmptyDone", "Submitting", "Waiting", "Exiting", "Done"}
             => all_objects = Listing /\ ~is_truncated)
  /\ [][pc = "Listing" /\ ~list_error' =>
          /\ is_truncated' => pc' = "Listing"
          /\ pc' # "Listing" => ~is_truncated'
          /\ \E n \in 0..PageSize :
               all_objects' =
                 all_objects \o Take(Drop(Listing, Len(all_objects)), n)]_vars

\* the listing took three pages for two objects, so one page at least was
\* empty, and the pool is about to get both objects
C13_Witness ==
  /\ pc = "Submitting"
  /\ list_calls = 3
  /\ Len(all_objects) = 2
  /\ all_objects = Listing


\* the connections in use: one for the listing call of the main thread
\* (line 74), one for each worker inside the client's download (line 29)
Connections ==
  Cardinality({i \in Indices : futures[i].state = "download"})
    + (IF pc = "Listing" THEN 1 ELSE 0)

\* C14: connection-pool sizing.  Once the client is built its pool holds
\* max_workers + 10 connections (13 or more for three workers), and the calls
\* in flight never need more connections than the pool holds, so none has to
\* wait for one.
C14_PoolSizing ==
  s3_client =>
    /\ max_pool_connections = max_workers + 10
    /\ max_workers = 3 => max_pool_connections >= 13
    /\ Connections <= max_pool_connections

\* three workers are all inside the download call, with a pool of 13
C14_Witness ==
  /\ s3_client
  /\ max_workers = 3
  /\ max_pool_connections = 13
  /\ Connections = 3

\* C15: the main thread can count a finished task whatever the tasks
\* submitted before it are doing: while it waits, every task that is finished
\* and not counted yet has only finished tasks between the counted ones and
\* itself.
C15_TrackerObserves ==
  \A i \in Indices :
    (pc = "Waiting" /\ i > pbar_n /\ future_done(futures[i]))
      => \A j \in (pbar_n + 1)..i : future_done(futures[j])


\* the directory os.makedirs is to ensure for a task
TaskDir(f) == DirAt(DirParts(f), Len(DirParts(f)))

\* C16: per-task step order.  A task is in the download step, or has had a
\* download, only when its directory exists and the directory step raised
\* nothing; a task whose directory step failed is finished and recorded as
\* failed without any download; a task recorded as successful had no error
\* in either step, had its download and has its file.
C16_StepOrder ==
  \A i \in Indices :
    /\ (futures[i].state = "download" \/ futures[i].downloads > 0) =>
         /\ TaskDir(futures[i]) \in dirs
         /\ futures[i].error \notin MakedirsErrors
    /\ futures[i].error \in MakedirsErrors =>
         /\ futures[i].state = "finished"
         /\ futures[i].downloads = 0
         /\ futures[i].result = "False"
    /\ futures[i].result = "True" =>
         /\ futures[i].error = "none"
         /\ futures[i].downloads = 1
         /\ TaskDir(futures[i]) \in dirs
         /\ Location(futures[i].local_path) \in files

\* a task found a file where its directory should be and failed without a
\* download, another failed in the download, a third succeeded
C16_Witness ==
  /\ \E i \in Indices :
       /\ futures[i].error = "makedirs_file"
       /\ futures[i].result = "False"
       /\ futures[i].downloads = 0
  /\ \E j \in Indices :
       futures[j].error = "download" /\ futures[j].downloads = 1
  /\ \E k \in Indices : futures[k].result = "True"

\* C17: directory-creation races are harmless.  No task fails because a
\* directory it is to ensure exists already, whether it was there before or
\* a sibling made it between the task's look and its mkdir, and every task
\* that comes out of the directory step without an error has its directory.
C17_MkdirRaces ==
  \A i \in Indices :
    /\ futures[i].error # "makedirs_exists"
    /\ (futures[i].state \in {"download", "finished"}
          /\ futures[i].error \notin MakedirsErrors)
         => TaskDir(futures[i]) \in dirs

\* two workers are ensuring the same directory, which was not there when the
\* run began: one has it already and is downloading, the other is about to
\* call mkdir on it
C17_Witness ==
  \E i, j \in Indices :
    /\ i # j
    /\ futures[i].state = "mkdir"
    /\ futures[i].depth + 1 = Len(DirParts(futures[i]))
    /\ TaskDir(futures[i]) \in dirs
    /\ TaskDir(futures[i]) \notin mkdir_parents({<<>>}, LocalDir)
    /\ futures[j].state = "download"
    /\ TaskDir(futures[j]) = TaskDir(futures[i])


(***************************************************************************)
(* The run under fair scheduling: the main thread and the worker threads   *)
(* are threads of the operating system, so a step that stays possible is   *)
(* taken in the end.                                                       *)
(***************************************************************************)
SpecFair == Spec /\ WF_vars(Next)

\* C18: termination.  With every call of the client returning and the
\* threads scheduled fairly, every run reaches a final state: invalid
\* locator, listing failed, nothing to copy, or done, whatever tasks fail.
C18_Termination ==
  <>(pc \in {"InvalidLocator", "ListingFailed", "EmptyDone", "Done"})

\* the run is done with three tasks, all of them failed
C18_Witness ==
  /\ pc = "Done"
  /\ Len(futures) = 3
  /\ \A i \in Indices : futures[i].result = "False"

\* C19: the tracker never over-counts.  When the bar stands at pbar_n the
\* first pbar_n tasks in submission order are done, so pbar_n is at most the
\* number of finished tasks.
C19_NoOverCount ==
  /\ pbar_n <= Len(futures)
  /\ \A i \in 1..pbar_n : future_done(futures[i])
  /\ pbar_n <= Cardinality({i \in Indices : future_done(futures[i])})

\* the bar has counted a task while others are still running or queued
C19_Witness ==
  /\ pc = "Waiting"
  /\ pbar_n >= 1
  /\ InFlight # {}
  /\ Queued # {}

\* C20: the tasks of a listing of distinct keys under the prefix have
\* distinct destinations: no two tasks have the same local_path, no two are
\* in the download of the same file at once, and no task's local_path is the
\* directory of another's.
C20_DistinctDestinations ==
  \A i, j \in Indices :
    i # j =>
      /\ futures[i].local_path # futures[j].local_path
      /\ ~(/\ futures[i].state = "download"
           /\ futures[j].state = "download"
           /\ Location(futures[i].local_path)
                = Location(futures[j].local_path))
      /\ futures[i].local_path # dirname(futures[j].local_path)

====
